---- MODULE Spec2Model ----
(***************************************************************************)
(* Attendance tracker: the express/better-sqlite3/ws server of             *)
(* src/server.ts (lines 1-168) and the React viewer appended to the same   *)
(* file (lines 170-853).                                                   *)
(*                                                                         *)
(* The store is the two tables of lines 33-46.  The toggle handler of      *)
(* lines 106-147 uses the synchronous better-sqlite3 API and has no await: *)
(* it runs to completion inside one event-loop turn, so it is ONE action.  *)
(* Requests are concurrent only while they are in flight (pending).        *)
(* The viewer's fetchStudents (lines 463-519) has two awaits, so it is     *)
(* three steps.  The module's top level (lines 28-65, 168) runs once per    *)
(* start of the process, before the server listens (line 163).             *)
(*                                                                         *)
(* The viewer reads and subscribes through its own client (line 442); the  *)
(* model gives server and viewers ONE store and ONE notifier, as the       *)
(* specification does: the rows a viewer queries are the two tables, and   *)
(* the change events its subscription callback gets are the handler's      *)
(* broadcasts.                                                             *)
(*                                                                         *)
(* A handler of the viewer reads students from the render that created it  *)
(* (lines 448, 592), a functional updater reads the latest state (lines    *)
(* 535, 568).  When React renders again after a state change depends on    *)
(* the React version and root the bundle is built with, which the source   *)
(* does not fix: Render is a step of its own that may come before or after *)
(* the next click or event.                                                *)
(***************************************************************************)
EXTENDS Integers, Sequences, FiniteSets, TLC

\* ---------------------------------------------------------------- bounds
\* Length of MEETING_DATES (10 in the source, lines 14-19).
NumDates == 2
\* Number of viewers (browser tabs) that exist.
NumViewers == 2
\* Toggle requests ever posted in one behaviour.
MaxReqs == 2

\* ------------------------------------------------------------- constants
\* Only the length of MEETING_DATES is ever used (lines 58, 82, 86).
MEETING_DATES == [i \in 1..NumDates |-> i]

\* Names are sequences of Unicode code points.
Name_Nara == <<45208, 46972>>
Name_Gayeong == <<44032, 50689>>
Name_a == <<97>>
Name_B == <<66>>

\* The seed list, shortened; insertion order differs from name order as in
\* the source (its first name is not the first in name order).
INITIAL_NAMES == <<Name_Nara, Name_Gayeong>>

Viewers == 1..NumViewers

\* ------------------------------------------------------- name comparison
RECURSIVE LexLess(_, _)
\* Lexicographic order of two sequences of numbers.
LexLess(a, b) ==
    IF b = <<>> THEN FALSE
    ELSE IF a = <<>> THEN TRUE
    ELSE IF Head(a) # Head(b) THEN Head(a) < Head(b)
    ELSE LexLess(Tail(a), Tail(b))

\* SQLite's default BINARY collation (ORDER BY name ASC, line 77): memcmp of the
\* UTF-8 bytes, which orders strings as their code point sequences.
BinaryLess(a, b) == LexLess(a, b)

\* Primary collation weight of a code point (letters without case, then Hangul
\* syllables in code point order, which is their dictionary order).
PrimaryWeight(c) ==
    IF c \in 65..90 THEN c - 64
    ELSE IF c \in 97..122 THEN c - 96
    ELSE c

\* Tertiary weight: lower case sorts before upper case.
TertiaryWeight(c) == IF c \in 65..90 THEN 1 ELSE 0

\* String.prototype.localeCompare(b, 'ko') < 0 (lines 501, 514): primary weights
\* of the whole string first, case only as a tie-break.
LocaleLess(a, b) ==
    LET pa == [i \in 1..Len(a) |-> PrimaryWeight(a[i])]
        pb == [i \in 1..Len(b) |-> PrimaryWeight(b[i])]
        ta == [i \in 1..Len(a) |-> TertiaryWeight(a[i])]
        tb == [i \in 1..Len(b) |-> TertiaryWeight(b[i])]
    IN  IF pa # pb THEN LexLess(pa, pb) ELSE LexLess(ta, tb)

\* ---------------------------------------------------------------- store
\* Rows of the seed transaction (lines 54-63): AUTOINCREMENT ids 1, 2, ... in
\* list order, and one status-0 row per (student, date index).
SeedStudents ==
    [i \in 1..Len(INITIAL_NAMES) |-> [id |-> i, name |-> INITIAL_NAMES[i]]]

SeedAttendance ==
    { [student_id |-> i, date_index |-> d, status |-> 0] :
        i \in 1..Len(INITIAL_NAMES), d \in 0..(Len(MEETING_DATES) - 1) }

VARIABLES
    students,       \* table students: rows [id, name] in rowid order
    attendance,     \* table attendance: set of rows [student_id, date_index, status]
    pending,        \* toggle requests in flight: [req, body]
    nreq,           \* number of toggle requests posted so far
    log,            \* the toggle handler's runs, in the order they ran
    open,           \* viewers whose push connection is OPEN
    inbox,          \* per viewer: events sent on its connection, not yet delivered
    received,       \* per viewer: req numbers of the events delivered to it
    snapshot,       \* body of the last GET /api/students response, or <<>>
    vstudents,      \* per viewer: React state students (line 448)
    loading,        \* per viewer: React state loading (line 449)
    isConnected,    \* per viewer: React state isConnected (line 453)
    fetchpc,        \* per viewer: where fetchStudents (lines 463-519) stands
    studentsData,   \* per viewer: result of the students query (line 468)
    attendanceData, \* per viewer: result of the attendance query (line 476)
    proc,           \* the server process: "off", "loading", "crashed", "listening"
    work,           \* the open seed transaction's view of the tables, or {}
    upserts,        \* the viewers' upsert requests (lines 596-602) and their state
    rendered        \* per viewer: the students value of its last render, which
                    \* the handlers created by that render closed over

vars == <<students, attendance, pending, nreq, log, open, inbox, received,
          snapshot, vstudents, loading, isConnected, fetchpc,
          studentsData, attendanceData, proc, work, upserts, rendered>>

bootVars == <<proc, work>>

serverVars == <<pending, nreq, log, snapshot>>

viewerVars == <<vstudents, loading, isConnected, fetchpc, studentsData,
                attendanceData, rendered>>

channelVars == <<open, inbox, received>>

storeVars == <<students, attendance>>

\* SELECT status FROM attendance WHERE student_id = ? AND date_index = ? (116-117)
SelectStatus(att, sid, di) ==
    { r \in att : r.student_id = sid /\ r.date_index = di }

\* Mutant of MissingField: !studentId || !dateIndex.
MissingField_FalsyDateIndex(body) ==
    \/ "studentId" \notin DOMAIN body
    \/ body.studentId = 0
    \/ "dateIndex" \notin DOMAIN body
    \/ body.dateIndex = 0

\* Line 109: !studentId || dateIndex === undefined.  A missing JSON key reads
\* as undefined; 0 is falsy.
MissingField(body) ==
    \/ "studentId" \notin DOMAIN body
    \/ body.studentId = 0
    \/ "dateIndex" \notin DOMAIN body

\* Mutant of FlipStatus: the status is counted up.
FlipStatus_Increment(status) == status + 1

\* Mutant of FlipStatus: the new status is always 1.
FlipStatus_AlwaysPresent(status) == 1

\* Line 121: current.status === 1 ? 0 : 1
FlipStatus(status) == IF status = 1 THEN 0 ELSE 1

\* Mutant of NewStatusOf: let newStatus = 0.
NewStatusOf_InsertAbsent(current) ==
    IF current # {} THEN FlipStatus((CHOOSE r \in current : TRUE).status) ELSE 0

\* Lines 119-128: the status the handler computes from the row it read.
NewStatusOf(current) ==
    IF current # {} THEN FlipStatus((CHOOSE r \in current : TRUE).status) ELSE 1

\* FOREIGN KEY(student_id) REFERENCES students(id) (line 44), enforced by
\* better-sqlite3's build: an INSERT for an unknown student throws.
ForeignKeyFails(studs, sid) == \A i \in DOMAIN studs : studs[i].id # sid

\* Mutant of WriteStatus: the UPDATE has no date_index in its WHERE.
WriteStatus_AllDates(att, current, sid, di, newStatus) ==
    IF current # {}
    THEN { IF r.student_id = sid THEN [r EXCEPT !.status = newStatus] ELSE r : r \in att }
    ELSE att \cup { [student_id |-> sid, date_index |-> di, status |-> 1] }

\* Mutant of WriteStatus: the UPDATE matches no row.
WriteStatus_UpdateNothing(att, current, sid, di, newStatus) ==
    IF current # {}
    THEN att
    ELSE att \cup { [student_id |-> sid, date_index |-> di, status |-> 1] }

\* Lines 120-128: UPDATE the row when one was read, INSERT one otherwise.
WriteStatus(att, current, sid, di, newStatus) ==
    IF current # {}
    THEN { IF r \in current THEN [r EXCEPT !.status = newStatus] ELSE r : r \in att }
    ELSE att \cup { [student_id |-> sid, date_index |-> di, status |-> 1] }

\* Mutant of BroadcastData: the payload carries the status before the write.
BroadcastData_OldStatus(req, sid, di, newStatus) ==
    [type |-> "UPDATE_ATTENDANCE", studentId |-> sid, dateIndex |-> di,
     status |-> 1 - newStatus, req |-> req]

\* Lines 131-134: the broadcast payload (req is the model's tag of the toggle
\* that caused it; it is not part of the message).
BroadcastData(req, sid, di, newStatus) ==
    [type |-> "UPDATE_ATTENDANCE", studentId |-> sid, dateIndex |-> di,
     status |-> newStatus, req |-> req]

\* Mutant of Broadcast: the readyState check is dropped.
Broadcast_IgnoreReadyState(inb, op, msg) ==
    [v \in Viewers |-> Append(inb[v], msg)]

\* Mutant of Broadcast: only the first open client is sent to.
Broadcast_FirstOnly(inb, op, msg) ==
    [v \in Viewers |->
        IF v \in op /\ (\A w \in op : v <= w) THEN Append(inb[v], msg) ELSE inb[v]]

\* Lines 136-140: send to every client whose readyState is OPEN.
Broadcast(inb, op, msg) ==
    [v \in Viewers |-> IF v \in op THEN Append(inb[v], msg) ELSE inb[v]]

\* Line 92: String(s.id).  Kept apart from the number it prints.
String(n) == <<"str", n>>

\* Line 599: Number(studentId), the inverse of String on what String prints.
Number(str) == str[2]

\* ---------------------------------------------------------- toggle handler
\* The three responses of lines 110, 142 and 145.
BadRequest == [error |-> "Missing studentId or dateIndex"]

Success(newStatus) == [success |-> TRUE, newStatus |-> newStatus]

DatabaseError == [error |-> "Database error"]

\* The statement of lines 126-127 throws (caught at line 143): no row was read
\* and the student_id of the INSERT references no student.
InsertThrows(studs, current, sid) == current = {} /\ ForeignKeyFails(studs, sid)

\* Mutant of LogEntry: every run is answered with the response of line 145.
LogEntry_DatabaseError(r, code, resp, current) ==
    [req |-> r.req, body |-> r.body, code |-> 500, resp |-> DatabaseError,
     read |-> current]

\* A run of the handler as the log keeps it; read is what its SELECT returned.
LogEntry(r, code, resp, current) ==
    [req |-> r.req, body |-> r.body, code |-> code, resp |-> resp,
     read |-> current]

\* A client posts { studentId, dateIndex } (line 107).  The request names no
\* originator: the handler cannot tell whose it is.
PostToggle(body) ==
    /\ proc = "listening"
    /\ nreq < MaxReqs
    /\ nreq' = nreq + 1
    /\ pending' = pending \cup { [req |-> nreq + 1, body |-> body] }
    /\ UNCHANGED <<bootVars, upserts, storeVars, log, snapshot, channelVars, viewerVars>>

\* app.post('/api/attendance/toggle') (lines 106-147), one event-loop turn.
Toggle(r) ==
    /\ proc = "listening"
    /\ r \in pending
    /\ pending' = pending \ {r}
    /\ IF MissingField(r.body)
       THEN /\ log' = Append(log, LogEntry(r, 400, BadRequest, {}))
            /\ UNCHANGED <<attendance, inbox>>
       ELSE LET sid == r.body.studentId
                di == r.body.dateIndex
                current == SelectStatus(attendance, sid, di)
                newStatus == NewStatusOf(current)
            IN  IF InsertThrows(students, current, sid)
                THEN /\ log' = Append(log, LogEntry(r, 500, DatabaseError, current))
                     /\ UNCHANGED <<attendance, inbox>>
                ELSE /\ attendance' = WriteStatus(attendance, current, sid, di, newStatus)
                     /\ inbox' = Broadcast(inbox, open,
                                           BroadcastData(r.req, sid, di, newStatus))
                     /\ log' = Append(log, LogEntry(r, 200, Success(newStatus), current))
    /\ UNCHANGED <<bootVars, upserts, students, nreq, snapshot, open, received, viewerVars>>

\* ------------------------------------------------------------ listSnapshot
\* SELECT * FROM students ORDER BY name ASC (line 77).
OrderByName(studs) == SortSeq(studs, LAMBDA x, y : BinaryLess(x.name, y.name))

\* Mutant of StudentAttendance: the filter on student_id is dropped, the row
\* inserted last wins.
StudentAttendance_NoFilter(att, id) ==
    [i \in 1..Len(MEETING_DATES) |->
        LET at == { a \in att : a.date_index < Len(MEETING_DATES)
                                 /\ a.date_index = i - 1 }
        IN  IF at = {} THEN 0
            ELSE (CHOOSE a \in at : \A b \in at : b.student_id <= a.student_id).status]

\* Lines 82-89: an array of MEETING_DATES.length zeros, then for every row of
\* the student with date_index < length, array[date_index] = status.  A
\* negative date_index sets a property that is no element of the array and is
\* not serialised; the primary key leaves at most one row per index.
StudentAttendance(att, id) ==
    LET mine == { a \in att : a.student_id = id }
    IN  [i \in 1..Len(MEETING_DATES) |->
            LET at == { a \in mine : a.date_index < Len(MEETING_DATES)
                                     /\ a.date_index = i - 1 }
            IN  IF at = {} THEN 0 ELSE (CHOOSE a \in at : TRUE).status]

\* Lines 77-98: the body of the GET /api/students response.
ListSnapshot(studs, att) ==
    LET ordered == OrderByName(studs)
    IN  [i \in 1..Len(ordered) |->
            [id |-> String(ordered[i].id), name |-> ordered[i].name,
             attendance |-> StudentAttendance(att, ordered[i].id)]]

\* app.get('/api/students') (lines 75-103), one event-loop turn.
GetStudents ==
    /\ proc = "listening"
    /\ snapshot' = ListSnapshot(students, attendance)
    /\ UNCHANGED <<bootVars, upserts, storeVars, pending, nreq, log, channelVars, viewerVars>>

\* ------------------------------------------------------------------ viewer
\* A JavaScript array assignment arr[i] = x: an element inside the array is
\* replaced, an index past the end grows the array (the gap reads undefined,
\* written -1 here), a negative index is a property and touches no element.
ArraySet(arr, i, x) ==
    IF i >= 0 /\ i < Len(arr) THEN [arr EXCEPT ![i + 1] = x]
    ELSE IF i >= Len(arr)
         THEN [k \in 1..(i + 1) |->
                 IF k <= Len(arr) THEN arr[k] ELSE IF k = i + 1 THEN x ELSE 0 - 1]
         ELSE arr

\* Lines 483-498: the viewer's merge of the two query results.
MergedData(sData, aData) ==
    [i \in 1..Len(sData) |->
        [id |-> String(sData[i].id), name |-> sData[i].name,
         attendance |->
            LET mine == { a \in aData : a.student_id = sData[i].id }
            IN  [k \in 1..Len(MEETING_DATES) |->
                    LET at == { a \in mine : a.date_index < Len(MEETING_DATES)
                                             /\ a.date_index = k - 1 }
                    IN  IF at = {} THEN 0 ELSE (CHOOSE a \in at : TRUE).status]]]

\* Line 501 and line 514: sort((a, b) => a.name.localeCompare(b.name, 'ko')).
SortByLocale(list) == SortSeq(list, LAMBDA x, y : LocaleLess(x.name, y.name))

\* Mutant of FallbackList: the catch branch sets no roster.
FallbackList_Empty == <<>>

\* Lines 510-514: the synthetic roster of the catch branch.
FallbackList ==
    SortByLocale([i \in 1..Len(INITIAL_NAMES) |->
        [id |-> String(i), name |-> INITIAL_NAMES[i],
         attendance |-> [k \in 1..Len(MEETING_DATES) |-> 0]]])

\* Mutant of ApplyUpdate: date_index is not compared with the array's length.
ApplyUpdate_NoLengthCheck(prevStudents, msg) ==
    [i \in 1..Len(prevStudents) |->
        IF prevStudents[i].id = String(msg.studentId)
        THEN [prevStudents[i] EXCEPT !.attendance =
                 ArraySet(@, msg.dateIndex, msg.status)]
        ELSE prevStudents[i]]

\* Mutant of ApplyUpdate: the event flips the local mark.
ApplyUpdate_Flip(prevStudents, msg) ==
    [i \in 1..Len(prevStudents) |->
        IF prevStudents[i].id = String(msg.studentId)
        THEN [prevStudents[i] EXCEPT !.attendance =
                 IF msg.dateIndex < Len(@) /\ msg.dateIndex >= 0
                 THEN ArraySet(@, msg.dateIndex, 1 - @[msg.dateIndex + 1])
                 ELSE @]
        ELSE prevStudents[i]]

\* Lines 536-546: the overwrite of one mark by a change event.
ApplyUpdate(prevStudents, msg) ==
    [i \in 1..Len(prevStudents) |->
        IF prevStudents[i].id = String(msg.studentId)
        THEN [prevStudents[i] EXCEPT !.attendance =
                 IF msg.dateIndex < Len(@) THEN ArraySet(@, msg.dateIndex, msg.status)
                 ELSE @]
        ELSE prevStudents[i]]

\* Line 468-471: the students query is answered (rows ordered by name).
FetchStudentsQuery(v) ==
    /\ fetchpc[v] = "students"
    /\ studentsData' = [studentsData EXCEPT ![v] = OrderByName(students)]
    /\ fetchpc' = [fetchpc EXCEPT ![v] = "attendance"]
    /\ UNCHANGED <<rendered, bootVars, upserts, storeVars, serverVars, channelVars, vstudents, loading,
                   isConnected, attendanceData>>

\* Lines 476-478: the attendance query is answered.
FetchAttendanceQuery(v) ==
    /\ fetchpc[v] = "attendance"
    /\ attendanceData' = [attendanceData EXCEPT ![v] = attendance]
    /\ fetchpc' = [fetchpc EXCEPT ![v] = "merge"]
    /\ UNCHANGED <<rendered, bootVars, upserts, storeVars, serverVars, channelVars, vstudents, loading,
                   isConnected, studentsData>>

\* Lines 482-503 and 517: the continuation after the second await.
FetchMerge(v) ==
    /\ fetchpc[v] = "merge"
    /\ vstudents' = [vstudents EXCEPT ![v] =
                        SortByLocale(MergedData(studentsData[v], attendanceData[v]))]
    /\ isConnected' = [isConnected EXCEPT ![v] = TRUE]
    /\ loading' = [loading EXCEPT ![v] = FALSE]
    /\ fetchpc' = [fetchpc EXCEPT ![v] = "ready"]
    /\ UNCHANGED <<rendered, bootVars, upserts, storeVars, serverVars, channelVars, studentsData, attendanceData>>

\* Lines 473, 480 and 504-518: a query fails and the catch branch runs.
FetchFail(v) ==
    /\ fetchpc[v] \in {"students", "attendance"}
    /\ isConnected' = [isConnected EXCEPT ![v] = FALSE]
    /\ vstudents' = [vstudents EXCEPT ![v] = FallbackList]
    /\ loading' = [loading EXCEPT ![v] = FALSE]
    /\ fetchpc' = [fetchpc EXCEPT ![v] = "fallback"]
    /\ UNCHANGED <<rendered, bootVars, upserts, storeVars, serverVars, channelVars, studentsData, attendanceData>>

\* The viewer's push connection opens: it joins wss.clients (line 70) and the
\* status callback runs with SUBSCRIBED (lines 551-552).
Connect(v) ==
    /\ v \notin open
    /\ open' = open \cup {v}
    /\ isConnected' = [isConnected EXCEPT ![v] = TRUE]
    /\ UNCHANGED <<rendered, bootVars, upserts, storeVars, serverVars, inbox, received, vstudents, loading,
                   fetchpc, studentsData, attendanceData>>

\* The connection closes: what was sent on it and not yet delivered is lost,
\* and the status callback runs with CLOSED (lines 553-554).
Disconnect(v) ==
    /\ v \in open
    /\ open' = open \ {v}
    /\ inbox' = [inbox EXCEPT ![v] = <<>>]
    /\ isConnected' = [isConnected EXCEPT ![v] = FALSE]
    /\ UNCHANGED <<rendered, bootVars, upserts, storeVars, serverVars, received, vstudents, loading,
                   fetchpc, studentsData, attendanceData>>

\* Lines 531-548: the subscription callback runs for the oldest undelivered event.
Deliver(v) ==
    /\ v \in open
    /\ inbox[v] # <<>>
    /\ vstudents' = [vstudents EXCEPT ![v] = ApplyUpdate(@, Head(inbox[v]))]
    /\ received' = [received EXCEPT ![v] = Append(@, Head(inbox[v]).req)]
    /\ inbox' = [inbox EXCEPT ![v] = Tail(@)]
    /\ UNCHANGED <<rendered, bootVars, upserts, storeVars, serverVars, open, loading, isConnected, fetchpc,
                   studentsData, attendanceData>>

\* Mutant of OptimisticUpdate: every mark of the student is flipped.
OptimisticUpdate_WholeRow(prev, studentId, dateIndex) ==
    [i \in 1..Len(prev) |->
        IF prev[i].id = studentId
        THEN [prev[i] EXCEPT !.attendance = [k \in DOMAIN @ |-> 1 - @[k]]]
        ELSE prev[i]]

\* Lines 568-578: the optimistic flip of one local mark.
OptimisticUpdate(prev, studentId, dateIndex) ==
    [i \in 1..Len(prev) |->
        IF prev[i].id = studentId
        THEN [prev[i] EXCEPT !.attendance =
                 ArraySet(@, dateIndex, 1 - @[dateIndex + 1])]
        ELSE prev[i]]

\* Lines 592-594: 1 - (currentStudent?.attendance[dateIndex] || 0), computed
\* from the students value the handler closed over.
UpsertStatus(studs, studentId, dateIndex) ==
    LET found == { i \in DOMAIN studs : studs[i].id = studentId }
    IN  IF found = {} THEN 1
        ELSE LET a == studs[CHOOSE i \in found : \A j \in found : i <= j].attendance
             IN  IF dateIndex + 1 \in DOMAIN a /\ a[dateIndex + 1] = 1 THEN 0 ELSE 1

\* Lines 598-602: the row of the upsert request.
UpsertRow(studs, studentId, dateIndex) ==
    [student_id |-> Number(studentId), date_index |-> dateIndex,
     status |-> UpsertStatus(studs, studentId, dateIndex)]

\* upsert(row, { onConflict: 'student_id,date_index' }) (lines 596-602) at the
\* store: the row replaces the one with its key, or is inserted.
ApplyUpsert(att, row) ==
    { a \in att : ~(a.student_id = row.student_id /\ a.date_index = row.date_index) }
        \cup {row}

\* The mark a roster holds for a cell of one of its students.
LocalMark(list, studentId, dateIndex) ==
    list[CHOOSE i \in DOMAIN list : list[i].id = studentId].attendance[dateIndex + 1]

\* handleToggleAttendance (lines 563-602) up to its await: a click on a cell
\* of the rendered roster (line 778; nothing is rendered while loading, line
\* 612).  The updater of line 568 is applied to the latest state; the status
\* of the upsert is computed from students (line 592), the value of the render
\* that created this handler.  The request records, for the claims, the mark
\* the optimistic update wrote (optimistic) and the events the viewer had
\* received when it clicked (seen).
Click(v, studentId, dateIndex) ==
    /\ ~loading[v]
    /\ \E i \in DOMAIN rendered[v] : rendered[v][i].id = studentId
    /\ dateIndex \in 0..(Len(MEETING_DATES) - 1)
    /\ nreq < MaxReqs
    /\ nreq' = nreq + 1
    /\ vstudents' = [vstudents EXCEPT ![v] = OptimisticUpdate(@, studentId, dateIndex)]
    /\ upserts' = upserts \cup
          { [req |-> nreq + 1, by |-> v, state |-> "pending",
             row |-> UpsertRow(rendered[v], studentId, dateIndex),
             optimistic |-> LocalMark(vstudents'[v], studentId, dateIndex),
             seen |-> { received[v][k] : k \in DOMAIN received[v] }] }
    /\ UNCHANGED <<rendered, bootVars, storeVars, pending, log, snapshot, channelVars,
                   loading, isConnected, fetchpc, studentsData, attendanceData>>

\* React renders the component again after a state change: the handlers of the
\* new render close over the latest students value (lines 448, 563).
Render(v) ==
    /\ rendered[v] # vstudents[v]
    /\ rendered' = [rendered EXCEPT ![v] = vstudents[v]]
    /\ UNCHANGED <<bootVars, upserts, storeVars, serverVars, channelVars, vstudents,
                   loading, isConnected, fetchpc, studentsData, attendanceData>>

\* The upsert of a pending request is applied: the row is written, the change
\* event goes to every open subscription, and the await of line 596 returns
\* without error.
Upsert(u) ==
    /\ proc = "listening"
    /\ u \in upserts
    /\ u.state = "pending"
    /\ ~ForeignKeyFails(students, u.row.student_id)
    /\ attendance' = ApplyUpsert(attendance, u.row)
    /\ inbox' = Broadcast(inbox, open,
                          BroadcastData(u.req, u.row.student_id, u.row.date_index,
                                        u.row.status))
    /\ upserts' = (upserts \ {u}) \cup { [u EXCEPT !.state = "fulfilled"] }
    /\ UNCHANGED <<bootVars, students, serverVars, open, received, viewerVars>>

\* The request fails (lines 604-609): the error is logged, nothing else is done.
UpsertFail(u) ==
    /\ u \in upserts
    /\ u.state = "pending"
    /\ upserts' = (upserts \ {u}) \cup { [u EXCEPT !.state = "rejected"] }
    /\ UNCHANGED <<bootVars, storeVars, serverVars, channelVars, viewerVars>>

\* ------------------------------------------------------ start of the process
\* The two tables as one value: what a transaction reads, changes and installs.
Tables(studs, att) == [students |-> studs, attendance |-> att]

\* Mutant of SeedNeeded: the seed block runs on every start.
SeedNeeded_Always(studs) == TRUE

\* Lines 49-50: SELECT count(*) FROM students is 0.
SeedNeeded(studs) == Len(studs) = 0

\* Line 57: lastInsertRowid of an AUTOINCREMENT insert, one more than the
\* largest rowid the table holds (no row is ever deleted).
LastInsertRowid(studs) ==
    IF Len(studs) = 0 THEN 1
    ELSE 1 + (CHOOSE m \in { studs[i].id : i \in DOMAIN studs } :
                \A i \in DOMAIN studs : studs[i].id <= m)

\* Lines 55-61, one iteration of INITIAL_NAMES.forEach inside the transaction:
\* the student row, then its MEETING_DATES.length attendance rows of status 0.
InsertSeedRows(w, name) ==
    LET studentId == LastInsertRowid(w.students)
    IN  Tables(Append(w.students, [id |-> studentId, name |-> name]),
               w.attendance \cup
                   { [student_id |-> studentId, date_index |-> i, status |-> 0] :
                        i \in 0..(Len(MEETING_DATES) - 1) })

\* Mutant of Transaction: what the function wrote stays when it throws.
Transaction_NoRollback(tables, w, committed) == w

\* Lines 54 and 63: db.transaction(fn)() installs what fn wrote when fn returns
\* (COMMIT) and restores the tables when fn throws (ROLLBACK).
Transaction(tables, w, committed) == IF committed THEN w ELSE tables

\* The seed names the open transaction has inserted so far.
SeedProgress == Len((CHOOSE w \in work : TRUE).students) - Len(students)

\* The process starts and the module's top level runs (lines 28-52): the tables
\* are created if they are missing; when students is empty the seed
\* transaction begins, otherwise the server starts listening (lines 163, 168).
LoadModule ==
    /\ proc \in {"off", "crashed"}
    /\ IF SeedNeeded(students)
       THEN /\ proc' = "loading"
            /\ work' = { Tables(students, attendance) }
       ELSE /\ proc' = "listening"
            /\ work' = work
    /\ UNCHANGED <<storeVars, serverVars, channelVars, viewerVars, upserts>>

\* Lines 55-61: the next name of INITIAL_NAMES is inserted.
InsertStudent ==
    /\ proc = "loading"
    /\ SeedProgress < Len(INITIAL_NAMES)
    /\ work' = { InsertSeedRows(w, INITIAL_NAMES[SeedProgress + 1]) : w \in work }
    /\ UNCHANGED <<proc, storeVars, serverVars, channelVars, viewerVars, upserts>>

\* Line 63 returns: the transaction commits; the rest of the module runs and
\* the server listens.
SeedCommit ==
    /\ proc = "loading"
    /\ SeedProgress = Len(INITIAL_NAMES)
    /\ LET t == Transaction(Tables(students, attendance),
                            CHOOSE w \in work : TRUE, TRUE)
       IN  /\ students' = t.students
           /\ attendance' = t.attendance
    /\ work' = {}
    /\ proc' = "listening"
    /\ UNCHANGED <<serverVars, channelVars, viewerVars, upserts>>

\* A statement of the seed function throws (line 56 or 59): the transaction
\* rolls back, the exception leaves the module and the process ends.
SeedThrows ==
    /\ proc = "loading"
    /\ SeedProgress < Len(INITIAL_NAMES)
    /\ LET t == Transaction(Tables(students, attendance),
                            CHOOSE w \in work : TRUE, FALSE)
       IN  /\ students' = t.students
           /\ attendance' = t.attendance
    /\ work' = {}
    /\ proc' = "crashed"
    /\ UNCHANGED <<serverVars, channelVars, viewerVars, upserts>>

\* The process is stopped: requests in flight and connections end with it; the
\* database file stays.
Exit ==
    /\ proc = "listening"
    /\ proc' = "off"
    /\ pending' = {}
    /\ open' = {}
    /\ inbox' = [v \in Viewers |-> <<>>]
    /\ UNCHANGED <<work, storeVars, nreq, log, snapshot, received, viewerVars,
                   upserts>>

\* ------------------------------------------------------------------ inputs
\* Request bodies with both keys.
Bodies(S, D) == { [studentId |-> s, dateIndex |-> d] : s \in S, d \in D }

\* Request bodies the check of line 109 is about: a key is missing, or
\* studentId is the falsy 0.
MissingBodies ==
    { [dateIndex |-> 0], [studentId |-> 1], [studentId |-> 0, dateIndex |-> 0] }

\* Date indexes of requests: the valid ones, -1 and MEETING_DATES.length.
ReqDateIndexes == (0 - 1)..Len(MEETING_DATES)

\* The bodies posted under SpecDb: student 1 with every date index (SpecOpen
\* posts the bodies the handler answers with an error).
DbBodies == Bodies({1}, ReqDateIndexes)

\* ---------------------------------------------------------- specification
\* The state after the module has loaded on an empty database file: the seed
\* block (lines 48-65) has run; no viewer has connected or loaded anything.
InitRest ==
    /\ pending = {}
    /\ nreq = 0
    /\ log = <<>>
    /\ open = {}
    /\ inbox = [v \in Viewers |-> <<>>]
    /\ received = [v \in Viewers |-> <<>>]
    /\ snapshot = <<>>
    /\ vstudents = [v \in Viewers |-> <<>>]
    /\ loading = [v \in Viewers |-> TRUE]
    /\ isConnected = [v \in Viewers |-> FALSE]
    /\ fetchpc = [v \in Viewers |-> "students"]
    /\ studentsData = [v \in Viewers |-> <<>>]
    /\ attendanceData = [v \in Viewers |-> {}]
    /\ proc = "listening"
    /\ work = {}
    /\ upserts = {}
    /\ rendered = [v \in Viewers |-> <<>>]

Init ==
    /\ students = SeedStudents
    /\ attendance = SeedAttendance
    /\ InitRest

\* The bodies posted under Spec: a valid toggle, one with dateIndex =
\* MEETING_DATES.length, and one without dateIndex.
ChannelBodies == Bodies({1}, {0, Len(MEETING_DATES)}) \cup { [studentId |-> 1] }

\* The server and its push connections.  The viewers' snapshot queries stay
\* unanswered (SpecView answers them).
Next ==
    \/ \E body \in ChannelBodies : PostToggle(body)
    \/ \E r \in pending : Toggle(r)
    \/ \E v \in Viewers : Connect(v)
    \/ \E v \in Viewers : Disconnect(v)
    \/ \E v \in Viewers : Deliver(v)

Spec == Init /\ [][Next]_vars

\* The server, the push connections and the viewers' loading.
NextView ==
    \/ \E body \in Bodies({1}, {0, Len(MEETING_DATES)}) : PostToggle(body)
    \/ \E r \in pending : Toggle(r)
    \/ \E v \in Viewers : Connect(v)
    \/ \E v \in Viewers : Disconnect(v)
    \/ \E v \in Viewers : Deliver(v)
    \/ \E v \in Viewers : FetchStudentsQuery(v)
    \/ \E v \in Viewers : FetchAttendanceQuery(v)
    \/ \E v \in Viewers : FetchMerge(v)
    \/ \E v \in Viewers : FetchFail(v)

SpecView == Init /\ [][NextView]_vars

\* A database file that exists when the server starts (line 29; the seed block
\* is skipped when students is not empty, line 50): ids 1, 2, ... in rowid
\* order, one of the name lists, every row of the last student with status 0,
\* and any set of rows with a status of 0 or 1 for the valid pairs of the
\* other students.  The handler's INSERT branch (lines 124-128) and the
\* fill(0) of line 82 exist for the rows such a file lacks.
DbNameLists == { <<Name_Nara, Name_Gayeong>>, <<Name_a, Name_B>> }

DbStudents == { [i \in 1..Len(l) |-> [id |-> i, name |-> l[i]]] : l \in DbNameLists }

DbRows(studs) ==
    { [student_id |-> studs[i].id, date_index |-> d, status |-> st] :
        i \in 1..(Len(studs) - 1), d \in 0..(Len(MEETING_DATES) - 1), st \in {0, 1} }

DbFixedRows(studs) ==
    { [student_id |-> studs[Len(studs)].id, date_index |-> d, status |-> 0] :
        d \in 0..(Len(MEETING_DATES) - 1) }

\* PRIMARY KEY (student_id, date_index) (line 43).
PrimaryKeyHolds(att) ==
    \A a, b \in att :
        (a.student_id = b.student_id /\ a.date_index = b.date_index) => a = b

InitDb ==
    /\ students \in DbStudents
    /\ attendance \in { att \cup DbFixedRows(students) :
                            att \in { a \in SUBSET DbRows(students) : PrimaryKeyHolds(a) } }
    /\ InitRest

\* The server alone: toggles and snapshots, no push connection is open.
NextDb ==
    \/ \E body \in DbBodies : PostToggle(body)
    \/ \E r \in pending : Toggle(r)
    \/ GetStudents

SpecDb == InitDb /\ [][NextDb]_vars

\* No database file exists and the process is not running.
InitSeed ==
    /\ students = <<>>
    /\ attendance = {}
    /\ pending = {}
    /\ nreq = 0
    /\ log = <<>>
    /\ open = {}
    /\ inbox = [v \in Viewers |-> <<>>]
    /\ received = [v \in Viewers |-> <<>>]
    /\ snapshot = <<>>
    /\ vstudents = [v \in Viewers |-> <<>>]
    /\ loading = [v \in Viewers |-> TRUE]
    /\ isConnected = [v \in Viewers |-> FALSE]
    /\ fetchpc = [v \in Viewers |-> "students"]
    /\ studentsData = [v \in Viewers |-> <<>>]
    /\ attendanceData = [v \in Viewers |-> {}]
    /\ proc = "off"
    /\ work = {}
    /\ upserts = {}
    /\ rendered = [v \in Viewers |-> <<>>]

\* Starts and stops of the process, with the toggles and snapshots it answers
\* while it listens.
NextSeed ==
    \/ LoadModule
    \/ InsertStudent
    \/ SeedCommit
    \/ SeedThrows
    \/ Exit
    \/ \E body \in ChannelBodies : PostToggle(body)
    \/ \E r \in pending : Toggle(r)
    \/ GetStudents

SpecSeed == InitSeed /\ [][NextSeed]_vars

\* The viewers' loading and their subscriptions' status changes alone, on the
\* seeded store.
NextLoad ==
    \/ \E v \in Viewers : FetchStudentsQuery(v)
    \/ \E v \in Viewers : FetchAttendanceQuery(v)
    \/ \E v \in Viewers : FetchMerge(v)
    \/ \E v \in Viewers : FetchFail(v)
    \/ \E v \in Viewers : Connect(v)
    \/ \E v \in Viewers : Disconnect(v)

SpecLoad == Init /\ [][NextLoad]_vars

\* The server on an existing database file after any of the viewers' push
\* connections have opened (Connect).
InitOpen ==
    /\ students \in DbStudents
    /\ attendance \in { att \cup DbFixedRows(students) :
                            att \in { a \in SUBSET DbRows(students) : PrimaryKeyHolds(a) } }
    /\ open \in SUBSET Viewers
    /\ isConnected = [v \in Viewers |-> v \in open]
    /\ pending = {}
    /\ nreq = 0
    /\ log = <<>>
    /\ inbox = [v \in Viewers |-> <<>>]
    /\ received = [v \in Viewers |-> <<>>]
    /\ snapshot = <<>>
    /\ vstudents = [v \in Viewers |-> <<>>]
    /\ loading = [v \in Viewers |-> TRUE]
    /\ fetchpc = [v \in Viewers |-> "students"]
    /\ studentsData = [v \in Viewers |-> <<>>]
    /\ attendanceData = [v \in Viewers |-> {}]
    /\ proc = "listening"
    /\ work = {}
    /\ upserts = {}
    /\ rendered = [v \in Viewers |-> <<>>]

\* The bodies posted under SpecOpen: the first cell of student 1, the same
\* cell of a student id no student has, and the bodies with a missing field.
OpenBodies ==
    Bodies({1, Len(INITIAL_NAMES) + 1}, {0}) \cup MissingBodies

\* Toggles answered while some, all or none of the connections are open.
NextOpen ==
    \/ \E body \in OpenBodies : PostToggle(body)
    \/ \E r \in pending : Toggle(r)

SpecOpen == InitOpen /\ [][NextOpen]_vars

\* The viewers after loading, each with its subscription open and its roster
\* rendered: the store holds the seed rows and the mark 1 an earlier toggle
\* left at (student 1, date index 0); the students query of viewer 1 failed
\* and it holds the synthetic roster, every other viewer merged the snapshot
\* of that store.
InitClick ==
    /\ students = SeedStudents
    /\ attendance = ApplyUpsert(SeedAttendance,
                                [student_id |-> 1, date_index |-> 0, status |-> 1])
    /\ fetchpc = [v \in Viewers |-> IF v = 1 THEN "fallback" ELSE "ready"]
    /\ studentsData = [v \in Viewers |->
          IF fetchpc[v] = "ready" THEN OrderByName(students) ELSE <<>>]
    /\ attendanceData = [v \in Viewers |->
          IF fetchpc[v] = "ready" THEN attendance ELSE {}]
    /\ vstudents = [v \in Viewers |->
          IF fetchpc[v] = "ready"
          THEN SortByLocale(MergedData(studentsData[v], attendanceData[v]))
          ELSE FallbackList]
    /\ loading = [v \in Viewers |-> FALSE]
    /\ isConnected = [v \in Viewers |-> fetchpc[v] = "ready"]
    /\ open = Viewers
    /\ inbox = [v \in Viewers |-> <<>>]
    /\ received = [v \in Viewers |-> <<>>]
    /\ pending = {}
    /\ nreq = 0
    /\ log = <<>>
    /\ snapshot = <<>>
    /\ proc = "listening"
    /\ work = {}
    /\ upserts = {}
    /\ rendered = vstudents

\* The cell clicked: the first date of student 1.
ClickCells == { <<String(1), 0>> }

\* The viewers' clicks, their upserts, the change events and the renders.
NextClick ==
    \/ \E v \in Viewers, c \in ClickCells : Click(v, c[1], c[2])
    \/ \E u \in upserts : Upsert(u)
    \/ \E u \in upserts : UpsertFail(u)
    \/ \E v \in Viewers : Deliver(v)
    \/ \E v \in Viewers : Render(v)

SpecClick == InitClick /\ [][NextClick]_vars

\* The viewers loaded and rendered while the mark of (student 1, date index 0)
\* was 0; a toggle of that cell by another client has since set it to 1, and
\* its change event (tag 0) is on its way to every viewer.
InitRender ==
    /\ students = SeedStudents
    /\ attendance = ApplyUpsert(SeedAttendance,
                                [student_id |-> 1, date_index |-> 0, status |-> 1])
    /\ fetchpc = [v \in Viewers |-> "ready"]
    /\ studentsData = [v \in Viewers |-> OrderByName(students)]
    /\ attendanceData = [v \in Viewers |-> SeedAttendance]
    /\ vstudents = [v \in Viewers |->
          SortByLocale(MergedData(studentsData[v], attendanceData[v]))]
    /\ rendered = vstudents
    /\ loading = [v \in Viewers |-> FALSE]
    /\ isConnected = [v \in Viewers |-> TRUE]
    /\ open = Viewers
    /\ inbox = [v \in Viewers |-> << BroadcastData(0, 1, 0, 1) >>]
    /\ received = [v \in Viewers |-> <<>>]
    /\ pending = {}
    /\ nreq = 0
    /\ log = <<>>
    /\ snapshot = <<>>
    /\ proc = "listening"
    /\ work = {}
    /\ upserts = {}

\* Clicks, upserts, events and renders while an event is already in flight.
NextRender ==
    \/ \E v \in Viewers, c \in ClickCells : Click(v, c[1], c[2])
    \/ \E u \in upserts : Upsert(u)
    \/ \E u \in upserts : UpsertFail(u)
    \/ \E v \in Viewers : Deliver(v)
    \/ \E v \in Viewers : Render(v)

SpecRender == InitRender /\ [][NextRender]_vars

\* The rows a toggle with dateIndex = MEETING_DATES.length leaves in the store
\* (line 109 checks no range).
PastEndRows == { [student_id |-> 1, date_index |-> Len(MEETING_DATES), status |-> 1] }

\* The viewers with their subscriptions open and both queries of fetchStudents
\* answered (or failed: the synthetic roster is set), the merge still to run;
\* the store holds the seed rows and possibly a row past the last date.
InitArrays ==
    /\ students = SeedStudents
    /\ attendance \in { SeedAttendance, SeedAttendance \cup PastEndRows }
    /\ fetchpc \in [Viewers -> {"merge", "fallback"}]
    /\ studentsData = [v \in Viewers |->
          IF fetchpc[v] = "merge" THEN OrderByName(students) ELSE <<>>]
    /\ attendanceData = [v \in Viewers |->
          IF fetchpc[v] = "merge" THEN attendance ELSE {}]
    /\ vstudents = [v \in Viewers |->
          IF fetchpc[v] = "merge" THEN <<>> ELSE FallbackList]
    /\ rendered = [v \in Viewers |-> <<>>]
    /\ loading = [v \in Viewers |-> fetchpc[v] = "merge"]
    /\ isConnected = [v \in Viewers |-> fetchpc[v] = "merge"]
    /\ open = Viewers
    /\ inbox = [v \in Viewers |-> <<>>]
    /\ received = [v \in Viewers |-> <<>>]
    /\ pending = {}
    /\ nreq = 0
    /\ log = <<>>
    /\ snapshot = <<>>
    /\ proc = "listening"
    /\ work = {}
    /\ upserts = {}

\* The merge of each viewer, toggles of a valid pair and of a pair past the
\* last date, and the delivery of their events.
NextArrays ==
    \/ \E v \in Viewers : FetchMerge(v)
    \/ \E body \in Bodies({1}, {0, Len(MEETING_DATES)}) : PostToggle(body)
    \/ \E r \in pending : Toggle(r)
    \/ \E v \in Viewers : Deliver(v)

SpecArrays == InitArrays /\ [][NextArrays]_vars

\* ================================================================ claims
\* Helpers of the claims' formulas.
Last(seq) == seq[Len(seq)]

NumSlots == Len(MEETING_DATES)

\* The ids of the rows of the students table.
StudentIds == { students[i].id : i \in DOMAIN students }

\* A request for a pair the specification calls valid.
ValidPair(body) ==
    /\ DOMAIN body = {"studentId", "dateIndex"}
    /\ body.studentId \in StudentIds
    /\ body.dateIndex \in 0..(NumSlots - 1)

\* The statuses stored for a pair (none, or one by the primary key).
Stored(att, sid, di) ==
    { a.status : a \in { x \in att : x.student_id = sid /\ x.date_index = di } }

\* What a reader that treats a missing row as absent sees.
StoredOrAbsent(att, sid, di) ==
    IF Stored(att, sid, di) = {} THEN {0} ELSE Stored(att, sid, di)

\* Consecutive runs i, i+1 of the handler, both successful, for the same pair.
TwoToggles(i) ==
    /\ i \in 1..(Len(log) - 1)
    /\ log[i].code = 200
    /\ log[i + 1].code = 200
    /\ log[i].body = log[i + 1].body

\* C1: under serialized calls, two successive successful toggles of a valid
\* pair whose stored value is v (a missing row reads as absent, 0) return 1 - v
\* and then v, and leave the stored mark equal to v.
C1_ToggleTwiceRestores ==
    \A i \in 1..(Len(log) - 1) :
        (TwoToggles(i) /\ ValidPair(log[i].body)) =>
            LET b == log[i].body
                v == IF log[i].read = {} THEN 0
                     ELSE (CHOOSE r \in log[i].read : TRUE).status
            IN  /\ log[i].resp = [success |-> TRUE, newStatus |-> 1 - v]
                /\ log[i + 1].resp = [success |-> TRUE, newStatus |-> v]
                /\ (i + 1 = Len(log) =>
                        Stored(attendance, b.studentId, b.dateIndex) = {v})

\* C1 witness: a valid pair without a row has been toggled twice in a row.
C1_Witness ==
    /\ Len(log) = 2
    /\ TwoToggles(1)
    /\ ValidPair(log[1].body)
    /\ log[1].read = {}

\* C2: a toggle whose dateIndex is >= N or <= -1, or whose participantId names
\* no participant, gets an error response, leaves every stored mark and
\* participant row unchanged and causes no broadcast.
C2_InvalidToggleRejected ==
    [][ (Len(log') = Len(log) + 1
            /\ DOMAIN Last(log').body = {"studentId", "dateIndex"}
            /\ Last(log').body.studentId # 0
            /\ ~ValidPair(Last(log').body))
        => /\ Last(log').code # 200
           /\ attendance' = attendance
           /\ students' = students
           /\ inbox' = inbox ]_vars

\* C3: after seeding, whatever toggles are requested, the attendance table
\* holds exactly one mark for every (participant, date index) with
\* 0 <= date index < N and no mark for a date index outside 0..N-1.
C3_ExactlyTheValidPairs ==
    /\ \A sid \in StudentIds, d \in 0..(NumSlots - 1) :
          Cardinality({ a \in attendance : a.student_id = sid /\ a.date_index = d }) = 1
    /\ \A a \in attendance : a.date_index \in 0..(NumSlots - 1)

\* The marks a viewer's local copy holds at a coordinate (none when the roster
\* lacks the student or the array lacks the index).
MarkAt(list, sid, di) ==
    { list[i].attendance[di + 1] :
        i \in { k \in DOMAIN list : list[k].id = <<"str", sid>>
                                    /\ di + 1 \in DOMAIN list[k].attendance } }

\* The req tags of the events of a queue.
ReqsOf(queue) == [k \in DOMAIN queue |-> queue[k].req]

\* No value occurs twice in the sequence.
NoRepeat(seq) == \A i, j \in DOMAIN seq : seq[i] = seq[j] => i = j

\* The successful runs of the handler.
Successes == { i \in DOMAIN log : log[i].code = 200 }

\* C4: after a successful toggle of a valid pair, once its event has been
\* delivered to a connected viewer, that viewer's local mark at the pair equals
\* the newStatus returned to the requester.
C4_DeliveredMarkIsNewStatus ==
    [][ \A v \in Viewers :
          (Len(received'[v]) = Len(received[v]) + 1) =>
            \A i \in Successes :
              (log[i].req = Last(received'[v]) /\ ValidPair(log[i].body)) =>
                MarkAt(vstudents'[v], log[i].body.studentId, log[i].body.dateIndex)
                    = {log[i].resp.newStatus} ]_vars

\* C5: each successful toggle sends one UPDATE_ATTENDANCE event to every
\* connection open at that moment (whichever of them originated the toggle),
\* and to no other; the event's participant, date index and status are the
\* request's pair and the newStatus of the response.
C5_BroadcastToEveryOpen ==
    [][ (Len(log') = Len(log) + 1 /\ Last(log').code = 200) =>
          LET e == Last(log')
              msg == [type |-> "UPDATE_ATTENDANCE", studentId |-> e.body.studentId,
                      dateIndex |-> e.body.dateIndex, status |-> e.resp.newStatus,
                      req |-> e.req]
          IN  \A v \in Viewers :
                inbox'[v] = IF v \in open THEN Append(inbox[v], msg) ELSE inbox[v] ]_vars

\* C5 witness: a successful toggle was handled while every viewer's connection
\* was open, and its event is queued on each of them.
C5_Witness ==
    \E i \in Successes :
        \A v \in Viewers :
            /\ v \in open
            /\ \E k \in DOMAIN inbox[v] :
                  /\ inbox[v][k].req = log[i].req
                  /\ inbox[v][k].status = log[i].resp.newStatus

\* Two runs of the handler, one right after the other, for the same pair,
\* whose requests were in flight at the same time: the one handled first was
\* posted after the other.
ConcurrentToggles(i) == TwoToggles(i) /\ log[i].req > log[i + 1].req

\* C6 (as stated): two concurrent toggles of the same pair both read the same
\* stored value v before either writes, so the stored value ends at 1 - v.
C6_LostUpdate ==
    \A i \in 1..(Len(log) - 1) :
        (ConcurrentToggles(i) /\ ValidPair(log[i].body)) =>
            /\ log[i + 1].read = log[i].read
            /\ (i + 1 = Len(log) =>
                  Stored(attendance, log[i].body.studentId, log[i].body.dateIndex)
                      = { 1 - st : st \in StoredOrAbsent(log[i].read, log[i].body.studentId,
                                                         log[i].body.dateIndex) })

\* C6 (amended): the handler runs its read and its write in one turn, so of two
\* toggles of the same pair, concurrent or not, the second reads the row the
\* first wrote, and after both the stored value is v again.
C6_NoLostUpdate ==
    \A i \in 1..(Len(log) - 1) :
        (TwoToggles(i) /\ ValidPair(log[i].body)) =>
            LET b == log[i].body
            IN  /\ log[i + 1].read =
                      { [student_id |-> b.studentId, date_index |-> b.dateIndex,
                         status |-> log[i].resp.newStatus] }
                /\ (i + 1 = Len(log) =>
                      Stored(attendance, b.studentId, b.dateIndex)
                          = StoredOrAbsent(log[i].read, b.studentId, b.dateIndex))

\* C6 witness: two toggles of the same valid pair were in flight together and
\* both have been answered.
C6_Witness ==
    /\ Len(log) >= 2
    /\ ConcurrentToggles(Len(log) - 1)
    /\ ValidPair(Last(log).body)

\* C7: delivery is at most once and there is no backlog: no event is received
\* twice by a viewer or queued again once received; an event enters a viewer's
\* queue only in the step that broadcasts it and only if the viewer's
\* connection is open in that step; a viewer receives only the head of its
\* queue, which leaves the queue; a closed connection keeps nothing queued, so
\* nothing is replayed when the viewer reconnects.
C7_AtMostOnceNoBacklog ==
    [][ \A v \in Viewers :
          /\ NoRepeat(received'[v] \o ReqsOf(inbox'[v]))
          /\ (v \notin open' => inbox'[v] = <<>>)
          /\ \A k \in DOMAIN inbox'[v] :
                (\A j \in DOMAIN inbox[v] : inbox[v][j] # inbox'[v][k]) =>
                    /\ v \in open
                    /\ \E r \in pending \ pending' : r.req = inbox'[v][k].req
          /\ (received'[v] # received[v] =>
                /\ v \in open
                /\ inbox[v] # <<>>
                /\ received'[v] = Append(received[v], Head(inbox[v]).req)
                /\ inbox'[v] = Tail(inbox[v])) ]_vars

\* C7 witness: one viewer has received a toggle's event; another viewer, whose
\* connection is open now, has not and has nothing queued.
C7_Witness ==
    \E i \in Successes : \E v, w \in Viewers :
        /\ \E k \in DOMAIN received[v] : received[v][k] = log[i].req
        /\ w \in open
        /\ inbox[w] = <<>>
        /\ received[w] = <<>>

\* A viewer has received the event of every successful toggle.
ReceivedAll(v) ==
    \A i \in Successes : \E k \in DOMAIN received[v] : received[v][k] = log[i].req

\* A viewer's local copy equals the store at every valid pair.
LocalEqualsStore(v) ==
    \A sid \in StudentIds, d \in 0..(NumSlots - 1) :
        MarkAt(vstudents[v], sid, d) = StoredOrAbsent(attendance, sid, d)

\* C8: once no toggle request is in flight and every broadcast event has been
\* delivered, the local copy of every connected viewer that finished loading a
\* snapshot (here: and that received every event) equals the store at every
\* pair, also when its snapshot fetch overlapped a toggle.
C8_ViewersConverge ==
    (pending = {} /\ \A v \in Viewers : inbox[v] = <<>>) =>
        \A v \in open :
            (fetchpc[v] = "ready" /\ ReceivedAll(v)) => LocalEqualsStore(v)

\* C9: listSnapshot returns one entry per participant row, each with exactly N
\* values, position i holding the stored mark of (participant, i) or 0 when the
\* row is missing; rows with a date index outside 0..N-1 change nothing.
C9_SnapshotComplete ==
    LET snap == ListSnapshot(students, attendance)
    IN  /\ Len(snap) = Len(students)
        /\ \A i \in DOMAIN students :
              Cardinality({ k \in DOMAIN snap :
                              snap[k].id = <<"str", students[i].id>>
                              /\ snap[k].name = students[i].name }) = 1
        /\ \A k \in DOMAIN snap :
              /\ Len(snap[k].attendance) = NumSlots
              /\ \A d \in 0..(NumSlots - 1) :
                    {snap[k].attendance[d + 1]}
                        = StoredOrAbsent(attendance, snap[k].id[2], d)

\* C9 witness: a snapshot was returned from a store that lacks the row of a
\* valid pair, holds rows with date index -1 and N, and holds a present mark.
C9_Witness ==
    /\ snapshot = ListSnapshot(students, attendance)
    /\ \E sid \in StudentIds, d \in 0..(NumSlots - 1) : Stored(attendance, sid, d) = {}
    /\ \E a \in attendance : a.date_index = NumSlots
    /\ \E a \in attendance : a.date_index < 0
    /\ \E k \in DOMAIN snapshot, d \in 1..NumSlots : snapshot[k].attendance[d] = 1

SeededStore(studs, att) ==
    /\ \A n \in 1..Len(INITIAL_NAMES) :
          Cardinality({ i \in DOMAIN studs : studs[i].name = INITIAL_NAMES[n] }) = 1
    /\ \A i \in DOMAIN studs, d \in 0..(NumSlots - 1) :
          Cardinality({ a \in att : a.student_id = studs[i].id /\ a.date_index = d }) = 1

\* C11: the first successful seed leaves exactly one participant per seed name
\* and exactly N marks per participant, all absent; a later start of the
\* process on the non-empty store opens no seed transaction and changes no
\* participant and no mark, whatever toggles happened in between.
C11_SeedIdempotent ==
    [][ /\ (proc = "loading" /\ proc' = "listening") =>
            /\ Len(students') = Len(INITIAL_NAMES)
            /\ SeededStore(students', attendance')
            /\ \A a \in attendance' : a.status = 0
            /\ Cardinality(attendance') = Len(INITIAL_NAMES) * NumSlots
        /\ (proc \in {"off", "crashed"} /\ proc' # proc /\ students # <<>>) =>
            /\ proc' = "listening"
            /\ work' = {}
            /\ students' = students
            /\ attendance' = attendance
        /\ (students # <<>>) =>
            /\ Len(students') = Len(INITIAL_NAMES)
            /\ SeededStore(students', attendance') ]_vars

\* C11 witness: the process listens again after a stop that followed a
\* successful toggle (request 1 was answered, request 2 ended with the stop).
C11_Witness ==
    /\ proc = "listening"
    /\ nreq = 2
    /\ pending = {}
    /\ Len(log) = 1
    /\ log[1].req = 1
    /\ log[1].code = 200

\* C12: whenever no seed transaction is open (the server answers requests, or
\* the process has ended, also by a failure part-way through seeding), the
\* store holds no participant and no mark, or every seed participant with all
\* N of its marks; requests are answered only then.
C12_SeedAllOrNothing ==
    /\ (proc # "loading") =>
          /\ work = {}
          /\ \/ (students = <<>> /\ attendance = {})
             \/ SeededStore(students, attendance)
    /\ (proc = "listening") => SeededStore(students, attendance)

\* C12 witness: the seed failed and the process ended; the store is empty.
C12_Witness ==
    /\ proc = "crashed"
    /\ students = <<>>
    /\ attendance = {}

\* Two local rosters list the same students with arrays of the same lengths.
SameShape(a, b) ==
    /\ Len(a) = Len(b)
    /\ \A i \in DOMAIN a :
          /\ a[i].id = b[i].id
          /\ a[i].name = b[i].name
          /\ Len(a[i].attendance) = Len(b[i].attendance)

\* Roster b is roster a with the mark of (sid, di) replaced by f[old mark] and
\* every other mark as it was.
OnlyMarkChanged(a, b, sid, di, f) ==
    /\ SameShape(a, b)
    /\ \A i \in DOMAIN a : \A k \in DOMAIN a[i].attendance :
          b[i].attendance[k] =
              IF a[i].id = <<"str", sid>> /\ k = di + 1
              THEN f[a[i].attendance[k]]
              ELSE a[i].attendance[k]

\* C13: when a viewer receives an event for (participantId, dateIndex), its
\* local mark at that coordinate becomes the event's status whatever it was
\* (an optimistic value included), and every other local mark is unchanged.
C13_EventOverwritesMark ==
    [][ \A v \in Viewers :
          (Len(received'[v]) = Len(received[v]) + 1) =>
              LET e == Head(inbox[v])
              IN  OnlyMarkChanged(vstudents[v], vstudents'[v], e.studentId,
                                  e.dateIndex, [x \in {0, 1} |-> e.status]) ]_vars

\* C13 witness: a viewer whose own upsert for a cell is still pending (its
\* local mark was the optimistic value) last received the event of another
\* viewer's upsert for that cell with the other status, and holds that status.
C13_Witness ==
    \E u1, u2 \in upserts :
        /\ u1.state = "pending"
        /\ u2.state = "fulfilled"
        /\ u2.by # u1.by
        /\ u2.row.student_id = u1.row.student_id
        /\ u2.row.date_index = u1.row.date_index
        /\ u2.row.status # u1.row.status
        /\ received[u1.by] # <<>>
        /\ Last(received[u1.by]) = u2.req
        /\ MarkAt(vstudents[u1.by], u1.row.student_id, u1.row.date_index)
              = {u2.row.status}

\* C20: a click at (participantId, dateIndex) flips the viewer's local mark at
\* that coordinate in the step that sends the request (the request is still
\* pending after it) and leaves its other local marks unchanged; when the
\* request fails nothing is reverted and nothing is sent again, and while it
\* stays pending only the viewer's own clicks and the events it receives
\* change its local marks.
C20_OptimisticClick ==
    [][ /\ \A u \in upserts' \ upserts :
              (\A w \in upserts : w.req # u.req) =>
                  /\ u.state = "pending"
                  /\ OnlyMarkChanged(vstudents[u.by], vstudents'[u.by],
                                     u.row.student_id, u.row.date_index,
                                     [x \in {0, 1} |-> 1 - x])
        /\ \A u \in upserts :
              (u.state = "pending" /\ u \notin upserts') =>
                  /\ vstudents' = vstudents
                  /\ nreq' = nreq
                  /\ { w.req : w \in upserts' } = { w.req : w \in upserts }
        /\ \A v \in Viewers :
              (vstudents'[v] # vstudents[v]) =>
                  \/ \E u \in upserts' \ upserts : u.by = v /\ u.state = "pending"
                  \/ received'[v] # received[v] ]_vars

\* C20 witness: a viewer's only request was rejected, no event reached the
\* viewer, and its local mark is still the flipped value, which the store does
\* not hold.
C20_Witness ==
    \E u \in upserts :
        /\ u.state = "rejected"
        /\ \A w \in upserts : w.by = u.by => w = u
        /\ received[u.by] = <<>>
        /\ MarkAt(vstudents[u.by], u.row.student_id, u.row.date_index)
              = {u.row.status}
        /\ Stored(attendance, u.row.student_id, u.row.date_index)
              = {1 - u.row.status}

\* The handler ran in this step; its run is the last entry of the new log.
HandlerRan == Len(log') = Len(log) + 1

\* A row of the attendance table is the row of the body's pair.
RowOf(a, body) == a.student_id = body.studentId /\ a.date_index = body.dateIndex

\* C14: when a toggle request ends with a failure response, the store is as it
\* was before the request: no mark was changed or created.
C14_FailureLeavesStore ==
    [][ (HandlerRan /\ Last(log').code # 200) =>
            /\ attendance' = attendance
            /\ students' = students ]_vars

\* C14 witness: one request was answered 400 and one, for a student that does
\* not exist, 500.
C14_Witness ==
    /\ \E i \in DOMAIN log : log[i].code = 400
    /\ \E i \in DOMAIN log : log[i].code = 500 /\ log[i].resp = DatabaseError

\* C15: a toggle request without participantId or without dateIndex is
\* answered with an error before the store is read, changes no mark and sends
\* no event; a request with dateIndex 0 and an existing participantId is not
\* rejected as missing.
C15_MissingFieldRejected ==
    [][ HandlerRan =>
          LET e == Last(log')
          IN  /\ ("studentId" \notin DOMAIN e.body \/ "dateIndex" \notin DOMAIN e.body) =>
                    /\ e.code = 400
                    /\ e.resp = BadRequest
                    /\ e.read = {}
                    /\ attendance' = attendance
                    /\ students' = students
                    /\ inbox' = inbox
              /\ (DOMAIN e.body = {"studentId", "dateIndex"}
                    /\ e.body.dateIndex = 0
                    /\ e.body.studentId \in StudentIds) =>
                    /\ e.code = 200
                    /\ e.resp # BadRequest ]_vars

\* C15 witness: with every connection open, a request without dateIndex was
\* rejected and a request with dateIndex 0 succeeded.
C15_Witness ==
    /\ open = Viewers
    /\ Len(log) = 2
    /\ \E i \in DOMAIN log :
          /\ log[i].code = 400
          /\ "dateIndex" \notin DOMAIN log[i].body
    /\ \E i \in DOMAIN log :
          /\ log[i].code = 200
          /\ log[i].body.dateIndex = 0

\* C18: a successful toggle changes only the mark of its pair: every other
\* mark and every participant row stays; no step deletes a participant or a
\* mark.
C18_ToggleFrame ==
    [][ /\ (HandlerRan /\ Last(log').code = 200) =>
              /\ students' = students
              /\ \A a \in attendance : ~RowOf(a, Last(log').body) => a \in attendance'
              /\ \A a \in attendance' : ~RowOf(a, Last(log').body) => a \in attendance
        /\ Len(students') >= Len(students)
        /\ \A i \in DOMAIN students : students'[i] = students[i]
        /\ \A a \in attendance :
              \E b \in attendance' :
                  b.student_id = a.student_id /\ b.date_index = a.date_index ]_vars

\* C18 witness: a toggle of a pair that had a row succeeded while another mark
\* of the same student and a mark of another student were stored.
C18_Witness ==
    \E i \in DOMAIN log :
        /\ log[i].code = 200
        /\ log[i].read # {}
        /\ \E a \in attendance :
              a.student_id = log[i].body.studentId
                  /\ a.date_index # log[i].body.dateIndex
                  /\ a.status # log[i].resp.newStatus
        /\ \E a \in attendance : a.student_id # log[i].body.studentId

\* C19: a toggle of a valid pair of an existing participant that has no mark
\* row creates the row with value 1, returns newStatus 1 and broadcasts
\* status 1.
C19_InsertBranch ==
    [][ (HandlerRan
            /\ ValidPair(Last(log').body)
            /\ Stored(attendance, Last(log').body.studentId,
                      Last(log').body.dateIndex) = {}) =>
          LET e == Last(log')
              row == [student_id |-> e.body.studentId,
                      date_index |-> e.body.dateIndex, status |-> 1]
              msg == [type |-> "UPDATE_ATTENDANCE", studentId |-> e.body.studentId,
                      dateIndex |-> e.body.dateIndex, status |-> 1, req |-> e.req]
          IN  /\ e.code = 200
              /\ e.resp = [success |-> TRUE, newStatus |-> 1]
              /\ row \notin attendance
              /\ attendance' = attendance \cup {row}
              /\ \A v \in Viewers :
                    inbox'[v] = IF v \in open THEN Append(inbox[v], msg) ELSE inbox[v] ]_vars

\* C19 witness: with every connection open, the first toggle found no row for
\* its valid pair; the row is stored with 1 and every viewer has the event.
C19_Witness ==
    /\ open = Viewers
    /\ Len(log) = 1
    /\ log[1].read = {}
    /\ log[1].code = 200
    /\ ValidPair(log[1].body)
    /\ Stored(attendance, log[1].body.studentId, log[1].body.dateIndex) = {1}
    /\ \A v \in Viewers : Len(inbox[v]) = 1 /\ inbox[v][1].status = 1

\* C16: when a viewer's snapshot fetch fails, the viewer leaves Loading with a
\* roster of one entry per name of the fixed list, each with N absent marks,
\* and with its connected flag false; it starts no further fetch.
C16_FallbackRoster ==
    [][ \A v \in Viewers :
          /\ (fetchpc[v] \in {"students", "attendance", "merge"}
                /\ fetchpc'[v] = "fallback") =>
                /\ loading'[v] = FALSE
                /\ isConnected'[v] = FALSE
                /\ Len(vstudents'[v]) = Len(INITIAL_NAMES)
                /\ \A n \in 1..Len(INITIAL_NAMES) :
                      Cardinality({ i \in DOMAIN vstudents'[v] :
                                      vstudents'[v][i].name = INITIAL_NAMES[n] }) = 1
                /\ \A i \in DOMAIN vstudents'[v] :
                      vstudents'[v][i].attendance = [k \in 1..NumSlots |-> 0]
          /\ (fetchpc[v] = "fallback") =>
                /\ fetchpc'[v] = "fallback"
                /\ studentsData'[v] = studentsData[v]
                /\ attendanceData'[v] = attendanceData[v]
                /\ loading'[v] = FALSE ]_vars

\* C16 witness: a viewer's attendance query failed after its students query
\* had been answered; the viewer is not loading and not connected.
C16_Witness ==
    \E v \in Viewers :
        /\ fetchpc[v] = "fallback"
        /\ studentsData[v] # <<>>
        /\ ~loading[v]
        /\ ~isConnected[v]
        /\ Len(vstudents[v]) = Len(INITIAL_NAMES)

\* C17: a viewer leaves Loading once, as Ready(connected) or as
\* Ready(disconnected-fallback); after that it never loads again and its
\* connected flag never changes; a viewer on the synthetic roster is never
\* marked connected.
C17_ViewerStateMachine ==
    [][ \A v \in Viewers :
          /\ (loading[v] /\ ~loading'[v]) =>
                \/ (fetchpc'[v] = "ready" /\ isConnected'[v])
                \/ (fetchpc'[v] = "fallback" /\ ~isConnected'[v])
          /\ (~loading[v]) =>
                /\ ~loading'[v]
                /\ fetchpc'[v] = fetchpc[v]
                /\ isConnected'[v] = isConnected[v]
          /\ (fetchpc'[v] = "fallback") => ~isConnected'[v] ]_vars

\* The requests a step creates.
NewUpserts == { u \in upserts' : \A w \in upserts : w.req # u.req }

\* C21: for every click, the status handleToggleAttendance writes to the store
\* (the status of the upsert it sends) equals the status its optimistic update
\* put in the viewer's local copy at that coordinate, also when a click on the
\* pair or an event for it came after the viewer's last render.
C21_WriteEqualsOptimistic ==
    [][ \A u \in NewUpserts :
          MarkAt(vstudents'[u.by], u.row.student_id, u.row.date_index)
              = {u.row.status} ]_vars

\* Two requests of different viewers for the same cell, each sent while the
\* viewer's local mark was the same value and before the viewer had received
\* the other's change event.
RacingClicks(u1, u2) ==
    /\ u1.by # u2.by
    /\ u1.row.student_id = u2.row.student_id
    /\ u1.row.date_index = u2.row.date_index
    /\ u1.optimistic = u2.optimistic
    /\ u1.req \notin u2.seen
    /\ u2.req \notin u1.seen

\* C22: when two viewers whose local copies both hold v at a pair both click
\* it before either receives the other's change event, both write 1 - v; once
\* both upserts are applied (and no other) the store holds 1 - v; and once both
\* events have reached both viewers, with nothing else queued, both local marks
\* are 1 - v.
C22_RacingClicksAgree ==
    \A u1, u2 \in upserts :
        RacingClicks(u1, u2) =>
            LET sid == u1.row.student_id
                di  == u1.row.date_index
                w   == u1.optimistic
            IN  /\ u1.row.status = w
                /\ u2.row.status = w
                /\ ( /\ u1.state = "fulfilled"
                     /\ u2.state = "fulfilled"
                     /\ upserts = {u1, u2} ) => Stored(attendance, sid, di) = {w}
                /\ ( /\ upserts = {u1, u2}
                     /\ \A v \in {u1.by, u2.by} :
                           /\ inbox[v] = <<>>
                           /\ \A u \in {u1, u2} :
                                 \E k \in DOMAIN received[v] : received[v][k] = u.req )
                       => \A v \in {u1.by, u2.by} : MarkAt(vstudents[v], sid, di) = {w}

\* The events a step adds to a viewer's queue.
SentTo(v) == { inbox'[v][k] : k \in (Len(inbox[v]) + 1)..Len(inbox'[v]) }

\* C23: in the toggle handler the mark is written before any event is sent and
\* every event is sent before the success response: an event is sent only by a
\* successful run, carries the value the store holds for its pair once the run
\* has written it (not the value before the write), and the run that answers
\* with success has by then sent its event to every open connection.
C23_WriteThenSendThenRespond ==
    [][ /\ \A v \in Viewers :
              /\ Len(inbox'[v]) >= Len(inbox[v])
              /\ \A m \in SentTo(v) :
                    /\ HandlerRan
                    /\ Last(log').code = 200
                    /\ m.req = Last(log').req
                    /\ Stored(attendance', m.studentId, m.dateIndex) = {m.status}
                    /\ Stored(attendance, m.studentId, m.dateIndex) # {m.status}
        /\ (HandlerRan /\ Last(log').code = 200) =>
              \A v \in open :
                  \E m \in SentTo(v) :
                      /\ m.req = Last(log').req
                      /\ m.status = Last(log').resp.newStatus ]_vars

\* C23 witness: with every connection open a toggle found the row of its pair
\* and was answered with success; every viewer's queue holds its event, whose
\* status is the newStatus of the response and the mark the store now holds.
C23_Witness ==
    /\ open = Viewers
    /\ Len(log) = 1
    /\ log[1].code = 200
    /\ log[1].read # {}
    /\ \A v \in Viewers :
          /\ Len(inbox[v]) = 1
          /\ inbox[v][1].status = log[1].resp.newStatus
          /\ Stored(attendance, inbox[v][1].studentId, inbox[v][1].dateIndex)
                = {inbox[v][1].status}

\* Every attendance array of every viewer's roster has N entries.
ArraysHaveN ==
    \A v \in Viewers : \A i \in DOMAIN vstudents[v] :
        DOMAIN vstudents[v][i].attendance = 1..NumSlots

\* The roster lists the participant of the event.
InRoster(list, msg) == \E i \in DOMAIN list : list[i].id = String(msg.studentId)

\* C24: in every reachable state each local attendance array of every viewer
\* has exactly N entries; an event whose date index is >= N or whose
\* participant is not in the viewer's roster leaves the roster as it was.
C24_LocalArraysKeepN ==
    /\ []ArraysHaveN
    /\ [][ \A v \in Viewers :
             (Len(received'[v]) = Len(received[v]) + 1) =>
                 LET e == Head(inbox[v])
                 IN  (e.dateIndex >= NumSlots \/ ~InRoster(vstudents[v], e)) =>
                         vstudents'[v] = vstudents[v] ]_vars

\* C24 witness: a viewer merged a snapshot holding a row past the last date,
\* then received the event of a toggle with dateIndex = N for a participant of
\* its roster; another viewer, its merge still to run, received an event while
\* its roster was empty.
C24_Witness ==
    /\ \E v \in Viewers :
          /\ fetchpc[v] = "ready"
          /\ vstudents[v] # <<>>
          /\ \E a \in attendanceData[v] : a.date_index >= NumSlots
          /\ received[v] # <<>>
          /\ \E i \in Successes :
                /\ log[i].body.dateIndex >= NumSlots
                /\ InRoster(vstudents[v], log[i].body)
                /\ Last(received[v]) = log[i].req
    /\ \E v \in Viewers :
          fetchpc[v] = "merge" /\ vstudents[v] = <<>> /\ received[v] # <<>>

\* C25: in every reachable state every stored mark is 0 or 1, and every
\* newStatus returned by toggle and every status carried by a broadcast event
\* is 0 or 1.
C25_StatusIsBinary ==
    /\ \A a \in attendance : a.status \in {0, 1}
    /\ \A i \in Successes : log[i].resp.newStatus \in {0, 1}
    /\ \A v \in Viewers : \A k \in DOMAIN inbox[v] : inbox[v][k].status \in {0, 1}

\* C25 witness: the same pair was toggled twice, answered with newStatus 1 and
\* then 0, and a viewer's queue holds both events, with status 1 and 0.
C25_Witness ==
    /\ \E i, j \in Successes :
          /\ i < j
          /\ log[i].body = log[j].body
          /\ log[i].resp.newStatus = 1
          /\ log[j].resp.newStatus = 0
    /\ \E v \in Viewers :
          {0, 1} \subseteq { inbox[v][k].status : k \in DOMAIN inbox[v] }

====
